---- MODULE Spec2Model ----
(***************************************************************************)
(* Model of the CAIXA (RO) scraper, src/index.js, and of the WordPress     *)
(* forwarder sync-wp.js, src/unnamed/part_000.                             *)
(*                                                                         *)
(* A JavaScript string is a sequence of one-character strings (<<>> is the *)
(* empty string), so that trimming, pattern matching and parsing are       *)
(* computed, not assumed.  An await that can reject is an action with one  *)
(* disjunct per outcome.                                                   *)
(***************************************************************************)
EXTENDS Integers, Sequences, FiniteSets, TLC

VARIABLES
    \* ---- runScrape (src/index.js 699-865) and its caller (872-877)
    pc,             \* position of runScrape
    cpc,            \* position inside the body of the city loop
    isMain,         \* index.js is the program's entry point
    browser,        \* "none" | "open" | "closed"
    closes,         \* number of browser.close() calls
    cmb_cidade,     \* options of #cmb_cidade as the last wait saw them
    initCmb,        \* options of #cmb_cidade seen by the wait of line 730
    cidades,        \* const cidades (line 734)
    ci,             \* index of the city of the for-of loop, 1-based
    warned,         \* wizard waits of the current city that timed out
    lista,          \* result pages of the city loaded in the session
    urlsPorCidade,  \* const urlsPorCidade, as its properties in JS order
    cityLog,        \* one entry per city the loop has finished (history)
    jsonFile,       \* content of urls_ro_por_cidade.json, NoFile if none
    jsonWrites,     \* number of writes of the city-index file
    queue,          \* <<codCidade, nomeCidade, url>> still to be fetched
    fetched,        \* urls handed to extrairDetalhesImovel (history)
    nulls,          \* urls for which extrairDetalhesImovel returned null
    detalhes,       \* const detalhes (line 829)
    xlsxFile,       \* rows of imoveis_ro_detalhes.xlsx, NoFile if none
    xlsxWrites,     \* number of writes of the spreadsheet
    result,         \* runScrape's promise: "pending"|"resolved"|"rejected"
    failedAt,       \* the step whose exception rejected runScrape
    exitCode,       \* process exit code, -1 while none
    \* ---- sync-wp.js (src/unnamed/part_000)
    spc,            \* position in the module's top level
    WP_URL,         \* process.env.WP_URL
    WP_TOKEN,       \* process.env.WP_TOKEN
    dir,            \* fs.readdirSync(process.cwd()): the entries, in order
    syncFile,       \* const jsonFile, the entry found
    payload,        \* const urlsPorCidade, parsed from the file
    posts,          \* the requests passed to fetch (history)
    res,            \* the response: its status, 0 while none
    syncExit,       \* exit code of the forwarder, -1 while none
    \* ---- coletarUrlsCidade (src/index.js 566-620), step by step
    kpc,            \* position in coletarUrlsCidade
    kDom,           \* the listing the host page serves
    totalPages,     \* const totalPages
    kP,             \* the loop variable p
    container,      \* items now in #listaimoveispaginacao
    urlsSet,        \* const urlsSet, in insertion order
    reads,          \* the items each evaluate of line 596 saw (history)
    kLoads,         \* what each pagination call left behind (history)
    kResult,        \* the array returned
    \* ---- extrairDetalhesImovel and salvarComoXlsx on one detail page
    xpc,            \* position
    xPage,          \* the detail page
    xMeta,          \* the meta argument
    xDet,           \* the value extrairDetalhesImovel returned
    xSheet,         \* the sheet salvarComoXlsx wrote
    \* ---- parseBRL (src/index.js 190-197) on one string
    brlPc,          \* position
    brlIn,          \* the argument s
    brlOut          \* the value returned

scrVars == <<pc, cpc, isMain, browser, closes, cmb_cidade, initCmb, cidades,
             ci, warned, lista, urlsPorCidade, cityLog, jsonFile, jsonWrites,
             queue, fetched, nulls, detalhes, xlsxFile, xlsxWrites, result,
             failedAt, exitCode>>

synVars == <<spc, WP_URL, WP_TOKEN, dir, syncFile, payload, posts, res,
             syncExit>>

colVars == <<kpc, kDom, totalPages, kP, container, urlsSet, reads, kLoads,
             kResult>>

extVars == <<xpc, xPage, xMeta, xDet, xSheet>>

brlVars == <<brlPc, brlIn, brlOut>>

vars == <<scrVars, synVars, colVars, extVars, brlVars>>

NoFile == [exists |-> FALSE]
File(content) == [exists |-> TRUE, content |-> content]
NULL == [isNull |-> TRUE]

-----------------------------------------------------------------------------
(* Bounds of the model.                                                    *)

MaxOpts == 2        \* options in the city dropdown
MaxPages == 2       \* result pages of one city
MaxFiles == 2       \* entries of the forwarder's working directory
MaxStr == 3         \* characters of an argument of parseBRL

-----------------------------------------------------------------------------
(* Strings.                                                                *)

Digits == {"0", "1", "2", "3", "4", "5", "6", "7", "8", "9"}
IsDigit(c) == c \in Digits
DigitVal(c) ==
    CASE c = "0" -> 0 [] c = "1" -> 1 [] c = "2" -> 2 [] c = "3" -> 3
      [] c = "4" -> 4 [] c = "5" -> 5 [] c = "6" -> 6 [] c = "7" -> 7
      [] c = "8" -> 8 [] c = "9" -> 9

IsSpace(c) == c \in {" ", "\n", "\r", "\t"}

RECURSIVE TrimStart(_)
TrimStart(s) ==
    IF s # <<>> /\ IsSpace(Head(s)) THEN TrimStart(Tail(s)) ELSE s

RECURSIVE TrimEnd(_)
TrimEnd(s) ==
    IF s # <<>> /\ IsSpace(s[Len(s)])
    THEN TrimEnd(SubSeq(s, 1, Len(s) - 1)) ELSE s

\* String.prototype.trim
Trim(s) == TrimEnd(TrimStart(s))

RECURSIVE SeqsUpTo(_, _)
SeqsUpTo(S, n) ==
    IF n = 0 THEN {<<>>}
    ELSE LET shorter == SeqsUpTo(S, n - 1)
         IN  shorter \cup {Append(s, x) : s \in shorter, x \in S}

Range(s) == {s[i] : i \in DOMAIN s}

RECURSIVE NatOf(_)
\* value of a string of digits
NatOf(s) ==
    IF s = <<>> THEN 0
    ELSE 10 * NatOf(SubSeq(s, 1, Len(s) - 1)) + DigitVal(s[Len(s)])

-----------------------------------------------------------------------------
(* The city dropdown: selectEstadoAndWaitCidades and getCidades.           *)

Opt(v, t) == [value |-> v, text |-> t]

\* <option>s the host page may put in #cmb_cidade: the placeholder, the
\* "0" sentinel, a city, and an option with a code and a blank label.
Options ==
    { Opt(<<>>, <<"S", "e", "l">>),
      Opt(<<"0">>, <<"T", "o", "d", "a", "s">>),
      Opt(<<"1", "2">>, <<" ", "J", "A", "R", "U", " ">>),
      Opt(<<"3">>, <<" ">>) }

\* contents of the dropdown: option values are unique, as in a <select> of
\* city codes
DropdownContents ==
    {s \in SeqsUpTo(Options, MaxOpts) :
        \A i, j \in DOMAIN s : s[i].value = s[j].value => i = j}

\* a wait that is met by any option at all, the placeholder included
WaitAnyOption(opts) == Len(opts) > 0

\* the predicate polled by page.waitForFunction, lines 77-84
WaitPred(opts) ==
    LET ok == {i \in DOMAIN opts :
                  /\ opts[i].value # <<>>
                  /\ opts[i].value # <<"0">>
                  /\ Trim(opts[i].text) # <<>>}
    IN  Cardinality(ok) > 0

RECURSIVE FilterCidades(_)
FilterCidades(opts) ==
    IF opts = <<>> THEN <<>>
    ELSE LET o == Opt(Head(opts).value, Trim(Head(opts).text))
             rest == FilterCidades(Tail(opts))
         IN  IF o.value # <<>> /\ o.value # <<"0">> THEN <<o>> \o rest
             ELSE rest

\* getCidades, lines 90-102
getCidades(opts) == FilterCidades(opts)

-----------------------------------------------------------------------------
(* Listing Collector: coletarUrlsCidade, lines 566-620.                    *)

Absent == <<"absent">>
NaN == [nan |-> TRUE, val |-> 0]
Num(n) == [nan |-> FALSE, val |-> n]

\* length of the run of digits at the head of s
RECURSIVE DigitRun(_)
DigitRun(s) ==
    IF s # <<>> /\ IsDigit(Head(s)) THEN 1 + DigitRun(Tail(s)) ELSE 0

\* the sign and the rest of a numeric literal
IsNeg(t) == t # <<>> /\ Head(t) = "-"
Unsigned(t) == IF t # <<>> /\ Head(t) \in {"-", "+"} THEN Tail(t) ELSE t

IntAt(neg, u, n) ==
    IF n = 0 THEN NaN
    ELSE IF neg THEN Num(0 - NatOf(SubSeq(u, 1, n)))
    ELSE Num(NatOf(SubSeq(u, 1, n)))

IntOf(neg, u) == IntAt(neg, u, DigitRun(u))

IntOfTrimmed(t) == IntOf(IsNeg(t), Unsigned(t))

\* parseInt(s, 10): leading blanks, an optional sign, then digits
ParseInt(s) == IntOfTrimmed(TrimStart(s))

\* lines 569-574: the page-count hint, 1 when absent or invalid
TotalPages(hdnQtdPag) ==
    IF hdnQtdPag = Absent \/ hdnQtdPag = <<>> THEN 1
    ELSE LET n == ParseInt(hdnQtdPag)
         IN  IF n.nan THEN 1 ELSE IF n.val <= 0 THEN 1 ELSE n.val

\* An item of #listaimoveispaginacao is the onclick attribute of its first
\* a[onclick*='detalhe_imovel'], as a sequence of tokens, or NoLink.
NoLink == <<"NoLink">>
FN == "detalhe_imovel("
RP == ")"

\* end of the run of digits that starts at i
RECURSIVE DigitsEnd(_, _)
DigitsEnd(s, i) ==
    IF i + 1 <= Len(s) /\ IsDigit(s[i + 1]) THEN DigitsEnd(s, i + 1) ELSE i

\* /detalhe_imovel\((\d+)\)/ matches at token i
MatchAt(s, i) ==
    /\ s[i] = FN
    /\ i + 1 <= Len(s)
    /\ IsDigit(s[i + 1])
    /\ LET e == DigitsEnd(s, i + 1) IN e + 1 <= Len(s) /\ s[e + 1] = RP

NoMatch == <<"NoMatch">>

\* onclick.match(/detalhe_imovel\((\d+)\)/): m[1] of the leftmost match
MatchId(onclick) ==
    LET at == {i \in DOMAIN onclick : MatchAt(onclick, i)}
    IN  IF at = {} THEN NoMatch
        ELSE LET i == CHOOSE k \in at : \A j \in at : k <= j
             IN  SubSeq(onclick, i + 1, DigitsEnd(onclick, i + 1))

URL_PREFIX ==
    <<"https://venda-imoveis.caixa.gov.br/sistema/detalhe-imovel.asp?hdnimovel=">>

\* line 610
UrlDet(idImovel) == URL_PREFIX \o idImovel

RECURSIVE ExtractUrls(_)
\* lines 596-614: the urls of the items now in the container, in order
ExtractUrls(items) ==
    IF items = <<>> THEN <<>>
    ELSE LET it == Head(items)
             rest == ExtractUrls(Tail(items))
             m == MatchId(it)
         IN  IF it = NoLink THEN rest
             ELSE IF m = NoMatch THEN rest
             ELSE <<UrlDet(m)>> \o rest

\* an array in place of the Set: every url is kept
AppendAll(set, urls) == set \o urls

RECURSIVE SetAddAll(_, _)
\* line 616: urls.forEach((u) => urlsSet.add(u)); a Set keeps insertion order
SetAddAll(set, urls) ==
    IF urls = <<>> THEN set
    ELSE SetAddAll(IF Head(urls) \in Range(set) THEN set
                   ELSE Append(set, Head(urls)), Tail(urls))

\* what the container holds when page p is read: the page the host serves
\* for p ("fresh"), the items that were there before the call ("stale"),
\* or nothing, when the wait of 587-593 timed out on an emptied container
Loads == {"fresh", "stale", "empty"}

PageOf(pages, p) == IF p \in DOMAIN pages THEN pages[p] ELSE <<>>

Container(pages, p, load, before) ==
    CASE load = "fresh" -> PageOf(pages, p)
      [] load = "stale" -> before
      [] load = "empty" -> <<>>

RECURSIVE ColetarFrom(_, _, _, _, _, _)
ColetarFrom(pages, loads, p, total, before, set) ==
    IF p > total THEN set
    ELSE LET now == IF p = 1 THEN before
                    ELSE Container(pages, p, loads[p], before)
         IN  ColetarFrom(pages, loads, p + 1, total, now,
                         SetAddAll(set, ExtractUrls(now)))

\* coletarUrlsCidade(page): dom is the listing as the session holds it,
\* loads[p] what each pagination call left in the container
coletarUrlsCidade(dom, loads) ==
    ColetarFrom(dom.pages, loads, 1, TotalPages(dom.hdnQtdPag),
                PageOf(dom.pages, 1), <<>>)

\* listing items the host page may render
IT7 == <<FN, "7", RP>>
IT07 == <<FN, "0", "7", RP>>
IT1 == <<"x", FN, "x", RP, FN, "1", RP>>
ITx == <<FN, "7", "x", RP>>
ITe == <<FN, RP>>

\* result pages the host page may serve
PageContents ==
    { <<>>, <<IT7>>, <<IT7, IT07>>, <<IT1, IT7>>, <<ITx, IT1>>,
      <<NoLink, IT7>>, <<ITe>>, <<IT1, IT1>> }

Hints == {Absent, <<>>, <<"x">>, <<"0">>, <<"-", "1">>, <<"1">>, <<"2">>,
          <<" ", "2", "x">>, <<"3">>}

Listas ==
    {[hdnQtdPag |-> h, pages |-> ps] :
        h \in Hints, ps \in SeqsUpTo(PageContents, MaxPages)}

-----------------------------------------------------------------------------
(* Detail Extractor, monetary values: lines 152-219.                       *)

\* A number is held in units of 10^-MaxFrac: exactly, when it has no more
\* than MaxFrac fraction digits (TLC's integers are 32 bits wide, which
\* admits amounts below 200 000,00 at three fraction digits).
MaxFrac == 2

RECURSIVE Pow10(_)
Pow10(n) == IF n = 0 THEN 1 ELSE 10 * Pow10(n - 1)

Unit == Pow10(MaxFrac)

RECURSIVE Keep(_, _)
\* the characters of s that are in S, in order
Keep(s, S) ==
    IF s = <<>> THEN <<>>
    ELSE IF Head(s) \in S THEN <<Head(s)>> \o Keep(Tail(s), S)
    ELSE Keep(Tail(s), S)

\* s.replace(",", "."): the first comma only
ReplaceFirstComma(s) ==
    LET at == {i \in DOMAIN s : s[i] = ","}
    IN  IF at = {} THEN s
        ELSE LET i == CHOOSE k \in at : \A j \in at : k <= j
             IN  [s EXCEPT ![i] = "."]

\* the first MaxFrac digits of a fraction, as units
FracUnits(f) ==
    LET g == SubSeq(f, 1, IF Len(f) < MaxFrac THEN Len(f) ELSE MaxFrac)
    IN  NatOf(g) * Pow10(MaxFrac - Len(g))

\* the digits of the fraction of a literal whose integer part is over at
\* rest: those after a leading "."
FracOf(rest) ==
    IF rest # <<>> /\ Head(rest) = "."
    THEN SubSeq(Tail(rest), 1, DigitRun(Tail(rest))) ELSE <<>>

\* the literal with integer digits int and fraction digits frac
Literal(neg, int, frac) ==
    IF int = <<>> /\ frac = <<>> THEN NaN
    ELSE IF neg THEN Num(0 - (NatOf(int) * Unit + FracUnits(frac)))
    ELSE Num(NatOf(int) * Unit + FracUnits(frac))

FloatAt(neg, u, ni) ==
    Literal(neg, SubSeq(u, 1, ni), FracOf(SubSeq(u, ni + 1, Len(u))))

FloatOf(neg, u) == FloatAt(neg, u, DigitRun(u))

FloatOfTrimmed(t) == FloatOf(IsNeg(t), Unsigned(t))

\* parseFloat(s): the longest prefix that is a decimal literal
ParseFloat(s) == FloatOfTrimmed(TrimStart(s))

\* parseBRL, lines 190-197: NaN stands for the null it returns
parseBRL(s) ==
    LET only == ReplaceFirstComma(
                    Keep(Keep(s, Digits \cup {",", ".", "-"}),
                         Digits \cup {",", "-"}))
    IN  ParseFloat(only)

RECURSIVE NatToStr(_)
NatToStr(n) ==
    IF n < 10 THEN <<CHOOSE c \in Digits : DigitVal(c) = n>>
    ELSE NatToStr(n \div 10) \o <<CHOOSE c \in Digits : DigitVal(c) = n % 10>>

\* round a / b to the nearest integer, halves up (a >= 0, b > 0)
RoundDiv(a, b) == (a \div b) + (IF 2 * (a % b) >= b THEN 1 ELSE 0)

\* the digits of cents hundredths with the separator sep: "1234" sep "56"
Cents(cents, sep) ==
    LET two == NatToStr(100 + (cents % 100))
    IN  NatToStr(cents \div 100) \o <<sep, two[2], two[3]>>

\* v.toFixed(2).replace(".", ","), v in units
ToFixed2Comma(v) ==
    LET digits == Cents(RoundDiv(IF v < 0 THEN 0 - v ELSE v, Unit \div 100),
                        ",")
    IN  IF v < 0 THEN <<"-">> \o digits ELSE digits

\* Math.min(...candidatos)
RECURSIVE MinOf(_)
MinOf(vs) ==
    IF Len(vs) = 1 THEN vs[1]
    ELSE LET m == MinOf(Tail(vs)) IN IF vs[1] <= m THEN vs[1] ELSE m

\* m ? m[1].trim() : "" of a regex capture
Captured(m) == IF m = NoMatch THEN <<>> ELSE Trim(m)

\* lines 183-188: the four value fields, from the four regex matches
ValorAvaliacao(pv) == Captured(pv.matchAval)
ValorMinimo1(pv) == Captured(pv.matchMin1)
ValorMinimo2(pv) == Captured(pv.matchMin2)
\* the generic capture recorded whatever the numbered ones matched
GenericoSempre(pv) == Captured(pv.matchMinGeneric)

ValorMinimoGenerico(pv) ==
    IF pv.matchMin1 = NoMatch /\ pv.matchMin2 = NoMatch
       /\ pv.matchMinGeneric # NoMatch
    THEN Trim(pv.matchMinGeneric) ELSE <<>>

RECURSIVE NotNull(_)
\* [..].filter((v) => v !== null), as the numbers' units
NotNull(vs) ==
    IF vs = <<>> THEN <<>>
    ELSE IF Head(vs).nan THEN NotNull(Tail(vs))
    ELSE <<Head(vs).val>> \o NotNull(Tail(vs))

\* lines 200-206
Candidatos(pv) ==
    LET vals == <<ValorMinimo1(pv), ValorMinimo2(pv),
                  ValorMinimoGenerico(pv)>>
    IN  NotNull([i \in 1..3 |-> parseBRL(vals[i])])

\* lines 208-212: vMinGeral, NaN standing for null
VMinGeral(pv) ==
    LET candidatos == Candidatos(pv)
    IN  IF Len(candidatos) > 0 THEN Num(MinOf(candidatos)) ELSE NaN

\* line 211
ValorMinimoGeral(pv) ==
    LET vMinGeral == VMinGeral(pv)
    IN  IF vMinGeral.nan THEN <<>> ELSE ToFixed2Comma(vMinGeral.val)

\* one digit of the long division of r by a
DivStep(qr, a) == <<qr[1] * 10 + ((qr[2] * 10) \div a), (qr[2] * 10) % a>>

\* (d / a) * 100 in hundredths, halves up (0 <= d <= a, a > 0)
PercentHundredths(d, a) ==
    LET qr == DivStep(DivStep(DivStep(DivStep(<<d \div a, d % a>>, a), a),
                              a), a)
    IN  qr[1] + (IF 2 * qr[2] >= a THEN 1 ELSE 0)

\* the discount with no floor at zero
DescontoSemPiso(pv) ==
    LET vAval == parseBRL(ValorAvaliacao(pv))
        vMinGeral == VMinGeral(pv)
    IN  IF ~vAval.nan /\ ~vMinGeral.nan /\ vAval.val > 0
        THEN LET d == vAval.val - vMinGeral.val
             IN  IF d < 0
                 THEN <<"-">> \o Cents(PercentHundredths(0 - d, vAval.val), ",")
                      \o <<"%">>
                 ELSE Cents(PercentHundredths(d, vAval.val), ",") \o <<"%">>
        ELSE <<>>

\* lines 214-218
DescontoPercentual(pv) ==
    LET vAval == parseBRL(ValorAvaliacao(pv))
        vMinGeral == VMinGeral(pv)
    IN  IF ~vAval.nan /\ ~vMinGeral.nan /\ vAval.val > 0
        THEN LET d == vAval.val - vMinGeral.val
                 desc == IF d < 0 THEN 0 ELSE PercentHundredths(d, vAval.val)
             IN  Cents(desc, ",") \o <<"%">>
        ELSE <<>>

-----------------------------------------------------------------------------
(* Detail Extractor, the record: lines 107-561.                            *)

\* A detail page is what its DOM yields to the extraction rules: sec is the
\* set of optional elements it has, pValores the four regex matches on the
\* paragraph of the values (found: the paragraph exists).  The label lookup
\* of the info columns and the splitting of the address are represented by
\* the texts they produce.
Sections ==
    {"h5", "hdnimovel", "colInfo1", "colInfo2", "relatedBox", "endereco",
     "linkMatricula", "linkEdital", "thumbs", "hdn_estado", "hdn_cidade",
     "hdn_bairro"}

\* the text found for name when the element el is on the page, else ""
Txt(page, el, name) == IF el \in page.sec THEN <<name>> ELSE <<>>

NoValores ==
    [found |-> FALSE, matchAval |-> NoMatch, matchMin1 |-> NoMatch,
     matchMin2 |-> NoMatch, matchMinGeneric |-> NoMatch]

\* lines 160-219: nothing is matched when the paragraph is not found
Valores(page) == IF page.pValores.found THEN page.pValores ELSE NoValores

\* a || b of two strings
OrElse(a, b) == IF a # <<>> THEN a ELSE b

\* imgsLista.join("|")
RECURSIVE Join(_, _)
Join(list, sep) ==
    IF list = <<>> THEN <<>>
    ELSE IF Len(list) = 1 THEN list[1]
    ELSE list[1] \o <<sep>> \o Join(Tail(list), sep)

\* lines 460-477: the thumbnails' urls, empties dropped
ImgsLista(page) ==
    IF "thumbs" \in page.sec THEN <<<<"img1">>, <<"img2">>>> ELSE <<>>

\* the object returned by page.evaluate, lines 115-554
Dados(page, estado, cidadeCodigo, cidadeNome) ==
    LET pv == Valores(page)
        rel == "relatedBox" \in page.sec
        relTxt(name) == IF rel THEN <<name>> ELSE <<>>
        endereco ==
            IF rel /\ "endereco" \in page.sec
            THEN <<"Rua A, N 1, Bairro B, CEP: 7-0, Cidade C - RO">>
            ELSE <<>>
        endTxt(name) == IF endereco # <<>> THEN <<name>> ELSE <<>>
        linkMat == Txt(page, "linkMatricula", "/matricula/1.pdf")
        desconto == DescontoPercentual(pv)
    IN
    [ _imoveis_codigo_imovel |-> Txt(page, "hdnimovel", "8555"),
      _imoveis_titulo |-> Txt(page, "h5", "CASA"),
      _imoveis_valor_avaliacao |-> ValorAvaliacao(pv),
      _imoveis_valor_minimo_1_leilao |-> ValorMinimo1(pv),
      _imoveis_valor_minimo_2_leilao |-> ValorMinimo2(pv),
      _imoveis_valor_minimo_generico |-> ValorMinimoGenerico(pv),
      _imoveis_valor_minimo |-> ValorMinimoGeral(pv),
      _imoveis_desconto_percentual |-> desconto,
      _imoveis_desconto_pct |-> desconto,
      _imoveis_tipo_imovel |-> Txt(page, "colInfo1", "Casa"),
      _imoveis_quartos |-> Txt(page, "colInfo1", "2"),
      _imoveis_garagem |-> Txt(page, "colInfo1", "1"),
      _imoveis_numero_imovel |-> Txt(page, "colInfo1", "855-5"),
      _imoveis_matricula |-> Txt(page, "colInfo1", "123"),
      _imoveis_comarca |-> Txt(page, "colInfo1", "JARU-RO"),
      _imoveis_oficio |-> Txt(page, "colInfo1", "01"),
      _imoveis_inscricao_imobiliaria |-> Txt(page, "colInfo1", "77"),
      _imoveis_averbacao_leiloes |-> Txt(page, "colInfo1", "Av"),
      _imoveis_area_total |-> Txt(page, "colInfo2", "100,00m2"),
      _imoveis_area_privativa |-> Txt(page, "colInfo2", "80,00m2"),
      _imoveis_area_terreno |-> Txt(page, "colInfo2", "200,00m2"),
      _imoveis_tipo_leilao |-> relTxt("Licitacao Aberta"),
      _imoveis_edital |-> relTxt("0001/2024"),
      _imoveis_leiloeiro |-> relTxt("Fulano"),
      _imoveis_numero_item |-> relTxt("12"),
      _imoveis_data_leilao_1 |-> relTxt("Data do 1o Leilao - 01/01"),
      _imoveis_data_leilao_2 |-> relTxt("Data do 2o Leilao - 02/01"),
      _imoveis_endereco_completo |-> endereco,
      _imoveis_endereco_logradouro |-> endTxt("Rua A"),
      _imoveis_endereco_numero |-> endTxt("1"),
      _imoveis_endereco_bairro_texto |-> endTxt("Bairro B"),
      _imoveis_endereco_cidade_texto |-> endTxt("Cidade C"),
      _imoveis_endereco_estado_texto |-> endTxt("RO"),
      _imoveis_cep |-> endTxt("7-0"),
      _imoveis_descricao |->
          IF rel THEN <<"C", "\n", " ", "a", " ", " ", "s", "a", "\r">>
          ELSE <<>>,
      _imoveis_formas_pagamento |-> relTxt("FORMAS DE PAGAMENTO ACEITAS"),
      _imoveis_link_matricula |-> linkMat,
      _imoveis_link_edital |-> Txt(page, "linkEdital", "/editais/1.pdf"),
      _imoveis_imgs_lista |-> Join(ImgsLista(page), "|"),
      _imoveis_estado |-> OrElse(Txt(page, "hdn_estado", "RO"), estado),
      _imoveis_cidade_codigo |->
          OrElse(Txt(page, "hdn_cidade", "9"), cidadeCodigo),
      _imoveis_cidade |-> OrElse(cidadeNome, endTxt("Cidade C")),
      _imoveis_bairro |->
          OrElse(Txt(page, "hdn_bairro", "55"), endTxt("Bairro B")) ]

\* how the try block of extrairDetalhesImovel ends: page.goto times out,
\* #dadosImovel does not appear, page.evaluate throws, or all succeed
DetailOutcomes == {"gotoTimeout", "noDadosImovel", "evaluateThrows", "ok"}

\* what a call gives when its exception is not caught inside it
Thrown == [isThrown |-> TRUE]

\* lines 112-556, the try block
TryExtrair(outcome, page, meta) ==
    IF outcome = "ok"
    THEN Dados(page,
               IF meta.estado = Absent THEN <<"R", "O">> ELSE meta.estado,
               meta.cidadeCodigo, meta.cidadeNome)
    ELSE Thrown

\* the try block with no catch around it
ExtrairSemCatch(outcome, page, meta) == TryExtrair(outcome, page, meta)

\* extrairDetalhesImovel(page, url, meta), lines 107-561: the catch of
\* lines 557-560 turns every exception of the try block into null
extrairDetalhesImovel(outcome, page, meta) ==
    LET dados == TryExtrair(outcome, page, meta)
    IN  IF dados = Thrown THEN NULL ELSE dados

-----------------------------------------------------------------------------
(* Dataset Writer: salvarComoXlsx, lines 625-694.                          *)

\* lines 626-670
campos ==
    << "_imoveis_codigo_imovel",
       "_imoveis_titulo",
       "_imoveis_valor_avaliacao",
       "_imoveis_valor_minimo_1_leilao",
       "_imoveis_valor_minimo_2_leilao",
       "_imoveis_valor_minimo_generico",
       "_imoveis_valor_minimo",
       "_imoveis_desconto_percentual",
       "_imoveis_desconto_pct",
       "_imoveis_tipo_imovel",
       "_imoveis_quartos",
       "_imoveis_garagem",
       "_imoveis_numero_imovel",
       "_imoveis_matricula",
       "_imoveis_comarca",
       "_imoveis_oficio",
       "_imoveis_inscricao_imobiliaria",
       "_imoveis_averbacao_leiloes",
       "_imoveis_area_total",
       "_imoveis_area_privativa",
       "_imoveis_area_terreno",
       "_imoveis_tipo_leilao",
       "_imoveis_edital",
       "_imoveis_leiloeiro",
       "_imoveis_numero_item",
       "_imoveis_data_leilao_1",
       "_imoveis_data_leilao_2",
       "_imoveis_endereco_completo",
       "_imoveis_endereco_logradouro",
       "_imoveis_endereco_numero",
       "_imoveis_endereco_bairro_texto",
       "_imoveis_endereco_cidade_texto",
       "_imoveis_endereco_estado_texto",
       "_imoveis_cep",
       "_imoveis_descricao",
       "_imoveis_formas_pagamento",
       "_imoveis_link_matricula",
       "_imoveis_link_edital",
       "_imoveis_imgs_lista",
       "_imoveis_estado",
       "_imoveis_cidade_codigo",
       "_imoveis_cidade",
       "_imoveis_bairro" >>

RECURSIVE NoNewlines(_)
\* .replace(/\r?\n|\r/g, " ")
NoNewlines(s) ==
    IF s = <<>> THEN <<>>
    ELSE IF Len(s) >= 2 /\ s[1] = "\r" /\ s[2] = "\n"
         THEN <<" ">> \o NoNewlines(SubSeq(s, 3, Len(s)))
    ELSE IF s[1] \in {"\n", "\r"} THEN <<" ">> \o NoNewlines(Tail(s))
    ELSE <<s[1]>> \o NoNewlines(Tail(s))

\* length of the run of whitespace at the head of s
RECURSIVE SpaceRun(_)
SpaceRun(s) ==
    IF s # <<>> /\ IsSpace(Head(s)) THEN 1 + SpaceRun(Tail(s)) ELSE 0

RECURSIVE Collapse(_)
\* .replace(/\s{2,}/g, " ")
Collapse(s) ==
    IF s = <<>> THEN <<>>
    ELSE IF SpaceRun(s) >= 2
         THEN <<" ">> \o Collapse(SubSeq(s, SpaceRun(s) + 1, Len(s)))
    ELSE <<s[1]>> \o Collapse(Tail(s))

\* sanitize, lines 672-678, of det[campo]; a missing property is undefined
sanitize(det, campo) ==
    IF campo \notin DOMAIN det THEN <<>>
    ELSE Trim(Collapse(NoNewlines(det[campo])))

\* a row that keeps only the fields that have a value
RowOfPresent(det) ==
    LET HasValue(e) == e[2] # <<>>
    IN  SelectSeq([i \in DOMAIN campos |->
                      <<campos[i], sanitize(det, campos[i])>>], HasValue)

\* lines 680-686: a row lists its properties in the order they were set
Row(det) == [i \in DOMAIN campos |-> <<campos[i], sanitize(det, campos[i])>>]

\* the sheet written by lines 688-692
salvarComoXlsx(dets) ==
    [header |-> campos, rows |-> [i \in DOMAIN dets |-> Row(dets[i])]]

-----------------------------------------------------------------------------
(* STATE MACHINES                                                          *)
(* runScrape, lines 699-865, and the top-level call, lines 872-877.        *)

\* a canonical array index: such property names are enumerated first, in
\* ascending order, whatever the order they were set in
IsIndexKey(k) ==
    /\ k # <<>>
    /\ \A i \in DOMAIN k : IsDigit(k[i])
    /\ (Len(k) > 1 => k[1] # "0")

\* whether property a is enumerated before property b, a set after b
Before(a, b) ==
    IsIndexKey(a) /\ (IsIndexKey(b) => NatOf(a) < NatOf(b))

\* obj[key] = v on an object held as its properties in enumeration order
ObjSet(obj, key, v) ==
    LET e == [key |-> key, cidade |-> v.cidade, urls |-> v.urls]
        at == {i \in DOMAIN obj : obj[i].key = key}
        n == Cardinality({i \in DOMAIN obj : ~Before(key, obj[i].key)})
    IN  IF at # {} THEN [i \in DOMAIN obj |-> IF i \in at THEN e ELSE obj[i]]
        ELSE SubSeq(obj, 1, n) \o <<e>> \o SubSeq(obj, n + 1, Len(obj))

HasKey(obj, key) == \E i \in DOMAIN obj : obj[i].key = key
Get(obj, key) == obj[CHOOSE i \in DOMAIN obj : obj[i].key = key]

RECURSIVE Entries(_)
\* lines 831-842: the <<codCidade, nomeCidade, url>> of the two nested loops
Entries(obj) ==
    IF obj = <<>> THEN <<>>
    ELSE [i \in DOMAIN Head(obj).urls |->
             <<Head(obj).key, Head(obj).cidade, Head(obj).urls[i]>>]
         \o Entries(Tail(obj))

\* listings a city's search may end on
ListaSamples ==
    { [hdnQtdPag |-> Absent, pages |-> <<>>],
      [hdnQtdPag |-> <<"2">>, pages |-> <<<<IT7>>, <<IT7, IT07>>>>],
      [hdnQtdPag |-> Absent, pages |-> <<<<ITe>>>>] }

NoLista == [hdnQtdPag |-> Absent, pages |-> <<>>]

\* the detail page served for a listing
DetailSample ==
    [sec |-> {"h5", "hdnimovel", "relatedBox"},
     pValores |-> [found |-> TRUE, matchAval |-> <<"9", ",", "0", "0">>,
                   matchMin1 |-> <<"6">>, matchMin2 |-> NoMatch,
                   matchMinGeneric |-> NoMatch]]

\* the other programs of the repository, not running
SynIdle ==
    /\ spc = "idle" /\ WP_URL = Absent /\ WP_TOKEN = Absent /\ dir = <<>>
    /\ syncFile = Absent /\ payload = Absent /\ posts = <<>> /\ res = 0
    /\ syncExit = -1

ColIdle ==
    /\ kpc = "idle" /\ kDom = NoLista /\ totalPages = 0 /\ kP = 0
    /\ container = <<>> /\ urlsSet = <<>> /\ reads = <<>> /\ kLoads = <<>>
    /\ kResult = <<>>

ExtIdle ==
    /\ xpc = "idle" /\ xPage = Absent /\ xMeta = Absent /\ xDet = NULL
    /\ xSheet = NoFile

BrlIdle == brlPc = "idle" /\ brlIn = <<>> /\ brlOut = NaN

ScrIdle ==
    /\ pc = "idle" /\ cpc = "goto" /\ isMain = FALSE /\ browser = "none"
    /\ closes = 0 /\ cmb_cidade = <<>> /\ initCmb = <<>> /\ cidades = <<>>
    /\ ci = 1 /\ warned = {} /\ lista = NoLista /\ urlsPorCidade = <<>>
    /\ cityLog = <<>> /\ jsonFile = NoFile /\ jsonWrites = 0
    /\ queue = <<>> /\ fetched = <<>> /\ nulls = <<>> /\ detalhes = <<>>
    /\ xlsxFile = NoFile /\ xlsxWrites = 0 /\ result = "pending"
    /\ failedAt = "none" /\ exitCode = -1

Init ==
    /\ SynIdle /\ ColIdle /\ ExtIdle /\ BrlIdle
    /\ pc = "launch"
    /\ cpc = "goto"
    /\ isMain \in BOOLEAN
    /\ browser = "none"
    /\ closes = 0
    /\ cmb_cidade = <<>>
    /\ initCmb = <<>>
    /\ cidades = <<>>
    /\ ci = 1
    /\ warned = {}
    /\ lista = NoLista
    /\ urlsPorCidade = <<>>
    /\ cityLog = <<>>
    /\ jsonFile = NoFile
    /\ jsonWrites = 0
    /\ queue = <<>>
    /\ fetched = <<>>
    /\ nulls = <<>>
    /\ detalhes = <<>>
    /\ xlsxFile = NoFile
    /\ xlsxWrites = 0
    /\ result = "pending"
    /\ failedAt = "none"
    /\ exitCode = -1

histVars == <<isMain, initCmb>>
loopVars == <<cidades, ci, cpc, warned, lista, urlsPorCidade, cityLog>>
fileVars == <<jsonFile, jsonWrites, xlsxFile, xlsxWrites>>
detVars == <<queue, fetched, nulls, detalhes>>
endVars == <<result, failedAt, exitCode>>
others == <<synVars, colVars, extVars, brlVars>>

\* an exception leaves runScrape: its promise rejects, and the catch of
\* lines 873-876 exits with 1 when index.js is the entry point
Reject(step) ==
    /\ pc' = "failed"
    /\ result' = "rejected"
    /\ failedAt' = step
    /\ exitCode' = IF isMain THEN 1 ELSE exitCode

\* lines 703-718
Launch ==
    /\ pc = "launch"
    /\ \/ /\ browser' = "open"
          /\ pc' = "gotoBusca"
          /\ UNCHANGED endVars
       \/ /\ Reject("launch")
          /\ UNCHANGED browser
    /\ UNCHANGED <<closes, cmb_cidade, histVars, loopVars, fileVars, detVars>>
    /\ UNCHANGED others

\* lines 723-727
OpenSearch ==
    /\ pc = "gotoBusca"
    /\ \/ /\ pc' = "selEstado"
          /\ UNCHANGED endVars
       \/ Reject("goto")
    /\ UNCHANGED <<browser, closes, cmb_cidade, histVars, loopVars, fileVars,
                   detVars>>
    /\ UNCHANGED others

\* lines 730-731: selectEstadoAndWaitCidades(page, "RO"); opts is what the
\* dropdown holds when the wait ends
SelectEstadoInicial ==
    /\ pc = "selEstado"
    /\ \E opts \in DropdownContents :
          /\ cmb_cidade' = opts
          /\ initCmb' = opts
          /\ IF WaitPred(opts)
             THEN pc' = "getCidades" /\ UNCHANGED endVars
             ELSE Reject("selectEstado")
    /\ UNCHANGED <<browser, closes, isMain, loopVars, fileVars, detVars>>
    /\ UNCHANGED others

\* lines 734-740: read the cities and enter the loop
LerCidades ==
    /\ pc = "getCidades"
    /\ cidades' = getCidades(cmb_cidade)
    /\ ci' = 1
    /\ pc' = IF Len(cidades') >= 1 THEN "cityLoop" ELSE "writeIndex"
    /\ UNCHANGED <<browser, closes, cmb_cidade, histVars, cpc, warned, lista,
                   urlsPorCidade, cityLog, fileVars, detVars, endVars>>
    /\ UNCHANGED others

cidade == cidades[ci]

\* the end of one iteration: urlsPorCidade[cidade.value] = {cidade, urls}
\* (lines 806, 813 and 819), then the next city or the end of the loop
FinishCidade(outcome, at, urls) ==
    /\ urlsPorCidade' = ObjSet(urlsPorCidade, cidade.value,
                               [cidade |-> cidade.text, urls |-> urls])
    /\ cityLog' = Append(cityLog, [value |-> cidade.value,
                                   outcome |-> outcome, at |-> at])
    /\ ci' = ci + 1
    /\ cpc' = "goto"
    /\ warned' = {}
    /\ pc' = IF ci + 1 > Len(cidades) THEN "writeIndex" ELSE "cityLoop"
    /\ UNCHANGED endVars

\* the exception has no handler in runScrape and leaves the loop
RethrowCidade(at) ==
    /\ Reject("cidade")
    /\ UNCHANGED <<urlsPorCidade, cityLog, ci, cpc, warned>>

\* a catch that logs the failure and records nothing for the city
SkipCidade(at) ==
    /\ cityLog' = Append(cityLog, [value |-> cidade.value,
                                   outcome |-> "error", at |-> at])
    /\ ci' = ci + 1
    /\ cpc' = "goto"
    /\ warned' = {}
    /\ pc' = IF ci + 1 > Len(cidades) THEN "writeIndex" ELSE "cityLoop"
    /\ UNCHANGED <<urlsPorCidade, endVars>>

\* the try/catch of lines 743 and 814-820, entered from the step at
CatchCidade(at) == FinishCidade("error", at, <<>>)

\* the step went through
Goes(to) ==
    /\ cpc' = to
    /\ UNCHANGED <<pc, ci, urlsPorCidade, cityLog, endVars>>

outVars == <<browser, closes, isMain, initCmb, cidades, fileVars, detVars>>

\* lines 744-748
CityGoto ==
    /\ pc = "cityLoop" /\ cpc = "goto"
    /\ \/ /\ Goes("selEstado")
          /\ cmb_cidade' = <<>>
          /\ lista' = NoLista
          /\ UNCHANGED warned
       \/ /\ CatchCidade("goto")
          /\ UNCHANGED <<cmb_cidade, lista>>
    /\ UNCHANGED outVars
    /\ UNCHANGED others

\* lines 750-751: the host page fills the dropdown as it did at line 730,
\* or its request is not answered within the timeout
CitySelectEstado ==
    /\ pc = "cityLoop" /\ cpc = "selEstado"
    /\ \E opts \in {initCmb, <<>>} :
          /\ cmb_cidade' = opts
          /\ IF WaitPred(opts)
             THEN Goes("selCidade") /\ UNCHANGED warned
             ELSE CatchCidade("selEstado")
    /\ UNCHANGED <<lista, outVars>>
    /\ UNCHANGED others

\* lines 754-762
CitySelectCidade ==
    /\ pc = "cityLoop" /\ cpc = "selCidade"
    /\ \/ Goes("next0") /\ UNCHANGED warned
       \/ CatchCidade("selCidade")
    /\ UNCHANGED <<cmb_cidade, lista, outVars>>
    /\ UNCHANGED others

\* the wait with no .catch on it: its timeout goes to the catch of the loop
WaitTimeoutThrows(w, to) == CatchCidade(w)

\* the .catch of lines 775-777 and 792-794: a warning, and on
WaitTimedOut(w, to) ==
    /\ Goes(to)
    /\ warned' = warned \cup {w}

\* lines 764-778
CityNext0 ==
    /\ pc = "cityLoop" /\ cpc = "next0"
    /\ \/ Goes("next1") /\ UNCHANGED warned      \* no button, or wait met
       \/ WaitTimedOut("btn_next0", "next1")
       \/ CatchCidade("next0")                   \* page.$ or click throws
    /\ UNCHANGED <<cmb_cidade, lista, outVars>>
    /\ UNCHANGED others

\* lines 780-794; l is the listing the host page has rendered when line
\* 796 looks at it
CityNext1 ==
    /\ pc = "cityLoop" /\ cpc = "next1"
    /\ \/ /\ \E l \in ListaSamples : lista' = l
          /\ \/ Goes("temImoveis") /\ UNCHANGED warned
             \/ WaitTimedOut("lista", "temImoveis")
       \/ /\ CatchCidade("next1")                \* page.$ or click throws
          /\ UNCHANGED lista
    /\ UNCHANGED <<cmb_cidade, outVars>>
    /\ UNCHANGED others

\* lines 796-802
TemImoveis(l) == Len(PageOf(l.pages, 1)) > 0

\* lines 796-808
CityTemImoveis ==
    /\ pc = "cityLoop" /\ cpc = "temImoveis"
    /\ \/ /\ TemImoveis(lista)
          /\ Goes("coletar") /\ UNCHANGED warned
       \/ /\ ~TemImoveis(lista)
          /\ FinishCidade("none", "temImoveis", <<>>)
       \/ CatchCidade("temImoveis")              \* page.evaluate throws
    /\ UNCHANGED <<cmb_cidade, lista, outVars>>
    /\ UNCHANGED others

\* lines 810-813
CityColetar ==
    /\ pc = "cityLoop" /\ cpc = "coletar"
    /\ \/ \E loads \in [1..TotalPages(lista.hdnQtdPag) -> Loads] :
             FinishCidade("collected", "coletar",
                          coletarUrlsCidade(lista, loads))
       \/ CatchCidade("coletar")                 \* coletarUrlsCidade throws
    /\ UNCHANGED <<cmb_cidade, lista, outVars>>
    /\ UNCHANGED others


\* JSON.stringify(urlsPorCidade, null, 2): the members "key": {cidade, urls}
\* of the object, in the order of its properties
Stringify(obj) ==
    [i \in DOMAIN obj |->
        <<obj[i].key, [cidade |-> obj[i].cidade, urls |-> obj[i].urls]>>]

\* lines 824-829
WriteIndex ==
    /\ pc = "writeIndex"
    /\ \/ /\ jsonFile' = File(Stringify(urlsPorCidade))
          /\ jsonWrites' = jsonWrites + 1
          /\ queue' = Entries(urlsPorCidade)
          /\ pc' = "details"
          /\ UNCHANGED endVars
       \/ /\ Reject("writeIndex")                 \* fs.writeFileSync throws
          /\ UNCHANGED <<jsonFile, jsonWrites, queue>>
    /\ UNCHANGED <<browser, closes, cmb_cidade, histVars, loopVars, xlsxFile,
                   xlsxWrites, fetched, nulls, detalhes>>
    /\ UNCHANGED others

\* lines 831-856: one iteration of the inner loop; the call of line 843 is
\* not inside a try, so an exception of the callee would leave runScrape
ExtractDetail ==
    /\ pc = "details" /\ queue # <<>>
    /\ \E outcome \in DetailOutcomes :
          LET u == Head(queue)
              det == extrairDetalhesImovel(outcome, DetailSample,
                         [estado |-> <<"R", "O">>, cidadeCodigo |-> u[1],
                          cidadeNome |-> u[2]])
          IN  /\ fetched' = Append(fetched, u[3])
              /\ IF det = Thrown
                 THEN /\ Reject("detalhes")
                      /\ UNCHANGED <<queue, detalhes, nulls>>
                 ELSE /\ IF det # NULL
                         THEN /\ detalhes' = Append(detalhes, det)
                              /\ UNCHANGED nulls
                         ELSE /\ nulls' = Append(nulls, u[3])
                              /\ UNCHANGED detalhes
                      /\ queue' = Tail(queue)
                      /\ UNCHANGED <<pc, endVars>>
    /\ UNCHANGED <<browser, closes, cmb_cidade, histVars, loopVars,
                   fileVars>>
    /\ UNCHANGED others

\* the spreadsheet step also writing the city-index file again
SaveXlsxAndIndex ==
    /\ pc = "details" /\ queue = <<>>
    /\ xlsxFile' = File(salvarComoXlsx(detalhes))
    /\ xlsxWrites' = xlsxWrites + 1
    /\ jsonFile' = File(Stringify(urlsPorCidade))
    /\ jsonWrites' = jsonWrites + 1
    /\ pc' = "close"
    /\ UNCHANGED <<endVars, browser, closes, cmb_cidade, histVars, loopVars,
                   detVars>>
    /\ UNCHANGED others

\* lines 859-860
SaveXlsx ==
    /\ pc = "details" /\ queue = <<>>
    /\ \/ /\ xlsxFile' = File(salvarComoXlsx(detalhes))
          /\ xlsxWrites' = xlsxWrites + 1
          /\ pc' = "close"
          /\ UNCHANGED endVars
       \/ /\ Reject("xlsx")                       \* XLSX.writeFile throws
          /\ UNCHANGED <<xlsxFile, xlsxWrites>>
    /\ UNCHANGED <<browser, closes, cmb_cidade, histVars, loopVars, jsonFile,
                   jsonWrites, detVars>>
    /\ UNCHANGED others

\* lines 862-864
CloseBrowser ==
    /\ pc = "close"
    /\ browser' = "closed"
    /\ closes' = closes + 1
    /\ pc' = "done"
    /\ result' = "resolved"
    /\ exitCode' = IF isMain THEN 0 ELSE exitCode
    /\ UNCHANGED <<failedAt, cmb_cidade, histVars, loopVars, fileVars,
                   detVars>>
    /\ UNCHANGED others

Next ==
    \/ Launch
    \/ OpenSearch
    \/ SelectEstadoInicial
    \/ LerCidades
    \/ CityGoto
    \/ CitySelectEstado
    \/ CitySelectCidade
    \/ CityNext0
    \/ CityNext1
    \/ CityTemImoveis
    \/ CityColetar
    \/ WriteIndex
    \/ ExtractDetail
    \/ SaveXlsx
    \/ CloseBrowser

Spec == Init /\ [][Next]_vars

-----------------------------------------------------------------------------
(* THE SYNC FORWARDER: sync-wp.js, src/unnamed/part_000.                  *)
(* File names are sequences of pieces ("urls_", "ro", "_por_cidade.json"); *)
(* a file's text is the member list JSON.stringify wrote or is not JSON.   *)

\* String.prototype.startsWith and endsWith
StartsWith(f, pre) == Len(f) >= Len(pre) /\ SubSeq(f, 1, Len(pre)) = pre
EndsWith(f, suf) ==
    Len(f) >= Len(suf) /\ SubSeq(f, Len(f) - Len(suf) + 1, Len(f)) = suf

\* the predicate of line 23
IsIndexFile(f) ==
    StartsWith(f, <<"urls_">>) /\ EndsWith(f, <<"_por_cidade.json">>)

\* lines 21-23: the first entry, in the order readdirSync lists them, whose
\* name passes the predicate; undefined when there is none
FindIndexFile(entries) ==
    LET hits == {i \in DOMAIN entries : IsIndexFile(entries[i].name)}
    IN  IF hits = {} THEN Absent
        ELSE entries[CHOOSE i \in hits : \A j \in hits : i <= j].name

\* !x of line 15 on a value of process.env: undefined or the empty string
Falsy(x) == x = Absent \/ x = <<>>

\* fs.readFileSync(jsonFile, "utf8")
ReadFile(entries, name) ==
    entries[CHOOSE i \in DOMAIN entries : entries[i].name = name].text

\* what JSON.parse gives: a value, or a SyntaxError thrown
SyntaxError == [ok |-> FALSE]
Parsed(v) == [ok |-> TRUE, value |-> v]
NotJson == [garbage |-> TRUE]

RECURSIVE ParseMembers(_, _)
\* JSON.parse builds the object member by member
ParseMembers(members, obj) ==
    IF members = <<>> THEN obj
    ELSE ParseMembers(Tail(members),
                      ObjSet(obj, Head(members)[1], Head(members)[2]))

\* JSON.parse, line 30
JSONParse(text) ==
    IF "members" \in DOMAIN text
    THEN Parsed(ParseMembers(text.members, <<>>))
    ELSE SyntaxError

\* the request of lines 42-51
Request(url, token, obj) ==
    [url |-> url \o <<"/wp-json/imoveis/v1/import">>,
     method |-> "POST",
     authorization |-> <<"Bearer ">> \o token,
     body |-> <<<<"urlsPorCidade", Stringify(obj)>>>>]

\* a test that lets redirections pass
OkBelow400(status) == status < 400

\* Response.ok
Ok(status) == status \in 200..299

\* what the environment may hold
EnvValues == {Absent, <<>>, <<"x">>}

IndexObjects ==
    { <<>>,
      <<[key |-> <<"7">>, cidade |-> <<"JARU">>, urls |-> <<UrlDet(<<"7">>)>>]>> }

Texts == {[members |-> Stringify(o)] : o \in IndexObjects} \cup {NotJson}

FileNames ==
    { <<"urls_", "ro", "_por_cidade.json">>,
      <<"urls_", "ac", "_por_cidade.json">>,
      <<"urls_", "ro", ".json">>,
      <<"imoveis_", "ro", "_detalhes.xlsx">> }

\* directory entries: mtime is the order in which the files were produced
Files == [name : FileNames, mtime : 1..MaxFiles, text : Texts]

Dirs ==
    {d \in SeqsUpTo(Files, MaxFiles) :
        \A i, j \in DOMAIN d :
            i # j => d[i].name # d[j].name /\ d[i].mtime # d[j].mtime}

Statuses == {200, 299, 300, 404}

SynInit ==
    /\ ScrIdle /\ ColIdle /\ ExtIdle /\ BrlIdle
    /\ spc = "env"
    /\ WP_URL \in EnvValues /\ WP_TOKEN \in EnvValues
    /\ dir \in Dirs
    /\ syncFile = Absent /\ payload = Absent /\ posts = <<>> /\ res = 0
    /\ syncExit = -1

synOthers == <<scrVars, colVars, extVars, brlVars>>

\* process.exit(code), or the end of the module, or an uncaught exception
SyncExit(code) ==
    /\ spc' = "exited"
    /\ syncExit' = code

\* lines 12-18
SyncCheckEnv ==
    /\ spc = "env"
    /\ IF Falsy(WP_URL) \/ Falsy(WP_TOKEN) THEN SyncExit(1)
       ELSE spc' = "find" /\ UNCHANGED syncExit
    /\ UNCHANGED <<WP_URL, WP_TOKEN, dir, syncFile, payload, posts, res>>
    /\ UNCHANGED synOthers

\* lines 21-28
SyncFind ==
    /\ spc = "find"
    /\ syncFile' = FindIndexFile(dir)
    /\ IF syncFile' = Absent THEN SyncExit(1)
       ELSE spc' = "read" /\ UNCHANGED syncExit
    /\ UNCHANGED <<WP_URL, WP_TOKEN, dir, payload, posts, res>>
    /\ UNCHANGED synOthers

\* line 30; an exception here is uncaught and ends the process with code 1
SyncRead ==
    /\ spc = "read"
    /\ LET parsed == JSONParse(ReadFile(dir, syncFile))
       IN  IF ~parsed.ok
           THEN SyncExit(1) /\ UNCHANGED payload
           ELSE payload' = parsed.value /\ spc' = "post"
                /\ UNCHANGED syncExit
    /\ UNCHANGED <<WP_URL, WP_TOKEN, dir, syncFile, posts, res>>
    /\ UNCHANGED synOthers

\* lines 42-53: the request goes out; fetch or res.text() rejects (the
\* rejection of a top-level await ends the process with code 1) or a
\* response with some status arrives
SyncPost ==
    /\ spc = "post"
    /\ posts' = Append(posts, Request(WP_URL, WP_TOKEN, payload))
    /\ \/ SyncExit(1) /\ UNCHANGED res
       \/ \E status \in Statuses :
            res' = status /\ spc' = "check" /\ UNCHANGED syncExit
    /\ UNCHANGED <<WP_URL, WP_TOKEN, dir, syncFile, payload>>
    /\ UNCHANGED synOthers

\* lines 54-59
SyncCheck ==
    /\ spc = "check"
    /\ IF ~Ok(res) THEN SyncExit(1) ELSE SyncExit(0)
    /\ UNCHANGED <<WP_URL, WP_TOKEN, dir, syncFile, payload, posts, res>>
    /\ UNCHANGED synOthers

SynNext ==
    \/ SyncCheckEnv
    \/ SyncFind
    \/ SyncRead
    \/ SyncPost
    \/ SyncCheck

SpecSync == SynInit /\ [][SynNext]_vars

-----------------------------------------------------------------------------
(* coletarUrlsCidade, lines 566-620, one step at a time.                   *)

ColInit ==
    /\ ScrIdle /\ SynIdle /\ ExtIdle /\ BrlIdle
    /\ kpc = "start"
    /\ kDom \in Listas
    /\ container = PageOf(kDom.pages, 1)     \* what the search ended on
    /\ totalPages = 0 /\ kP = 0 /\ urlsSet = <<>> /\ reads = <<>>
    /\ kLoads = <<>> /\ kResult = <<>>

colOthers == <<scrVars, synVars, extVars, brlVars>>

\* lines 567-576: totalPages, the empty Set, p = 1
ColStart ==
    /\ kpc = "start"
    /\ totalPages' = TotalPages(kDom.hdnQtdPag)
    /\ urlsSet' = <<>>
    /\ kP' = 1
    /\ kpc' = "read"
    /\ UNCHANGED <<kDom, container, reads, kLoads, kResult>>
    /\ UNCHANGED colOthers

\* lines 577-594, p > 1: carregaListaImoveis(p) and the wait for items; the
\* wait is satisfied by items already present, and its timeout is replaced
\* by a delay, so the read that follows may find any of Loads
ColPaginate ==
    /\ kpc = "paginate"
    /\ \E load \in Loads :
          /\ container' = Container(kDom.pages, kP, load, container)
          /\ kLoads' = Append(kLoads, load)
    /\ kpc' = "read"
    /\ UNCHANGED <<kDom, totalPages, kP, urlsSet, reads, kResult>>
    /\ UNCHANGED colOthers

\* lines 596-617 and the p++ of line 576
ColRead ==
    /\ kpc = "read"
    /\ reads' = Append(reads, container)
    /\ urlsSet' = SetAddAll(urlsSet, ExtractUrls(container))
    /\ kP' = kP + 1
    /\ kpc' = IF kP + 1 <= totalPages THEN "paginate" ELSE "return"
    /\ UNCHANGED <<kDom, totalPages, container, kLoads, kResult>>
    /\ UNCHANGED colOthers

\* line 619: Array.from(urlsSet)
ColReturn ==
    /\ kpc = "return"
    /\ kResult' = urlsSet
    /\ kpc' = "done"
    /\ UNCHANGED <<kDom, totalPages, kP, container, urlsSet, reads, kLoads>>
    /\ UNCHANGED colOthers

ColNext ==
    \/ ColStart
    \/ ColPaginate
    \/ ColRead
    \/ ColReturn

SpecColeta == ColInit /\ [][ColNext]_vars

-----------------------------------------------------------------------------
(* extrairDetalhesImovel followed by salvarComoXlsx, on one detail page.   *)

\* the regex captures of lines 170-181: runs of digits, "." and ","
Capturas ==
    { NoMatch,
      <<"1", "0", "0", ".", "0", "0", "0", ",", "0", "0">>,
      <<"8", "0", ".", "0", "0", "0", ",", "0", "0">>,
      <<"8", ",", "5">>,
      <<"0", ",", "0", "0">>,
      <<",">> }

PValores ==
    [found : {TRUE}, matchAval : Capturas, matchMin1 : Capturas,
     matchMin2 : Capturas, matchMinGeneric : Capturas]
    \cup {NoValores}

\* detail pages: every choice of optional elements, and every combination
\* of captures
ExtPages ==
    {[sec |-> s, pValores |-> DetailSample.pValores] : s \in SUBSET Sections}
    \cup {[sec |-> s, pValores |-> pv] :
            s \in {{}, Sections}, pv \in PValores}

Metas ==
    { [estado |-> Absent, cidadeCodigo |-> <<"7">>, cidadeNome |-> <<"JARU">>],
      [estado |-> <<"A", "C">>, cidadeCodigo |-> <<>>, cidadeNome |-> <<>>] }

ExtInit ==
    /\ ScrIdle /\ SynIdle /\ ColIdle /\ BrlIdle
    /\ xpc = "start"
    /\ xPage \in ExtPages
    /\ xMeta \in Metas
    /\ xDet = NULL
    /\ xSheet = NoFile

extOthers == <<scrVars, synVars, colVars, brlVars>>

\* line 843: const det = await extrairDetalhesImovel(page, url, meta)
ExtExtrair ==
    /\ xpc = "start"
    /\ \E outcome \in DetailOutcomes :
          xDet' = extrairDetalhesImovel(outcome, xPage, xMeta)
    /\ xpc' = "extracted"
    /\ UNCHANGED <<xPage, xMeta, xSheet>>
    /\ UNCHANGED extOthers

\* lines 844-846 and 859-860: the record is kept unless null, and the
\* records kept are written
ExtSalvar ==
    /\ xpc = "extracted"
    /\ xSheet' = File(salvarComoXlsx(IF xDet = NULL THEN <<>> ELSE <<xDet>>))
    /\ xpc' = "saved"
    /\ UNCHANGED <<xPage, xMeta, xDet>>
    /\ UNCHANGED extOthers

ExtNext ==
    \/ ExtExtrair
    \/ ExtSalvar

SpecExt == ExtInit /\ [][ExtNext]_vars

-----------------------------------------------------------------------------
(* parseBRL, lines 190-197, applied to one string.                         *)

\* the characters arguments are made of: digits, the two separators, the
\* sign and a character that is none of them
BrlChars == {"0", "1", ",", ".", "-", "x"}

\* longer arguments
BrlSamples ==
    { <<"1", ".", "2", "3", "4", ",", "5", "6">>,
      <<"R", "$", " ", "1", ".", "2", "3", "4", ",", "5", "6">>,
      <<"1", ",", "2", ",", "3">>,
      <<"1", "2", "3", "4", ",", "5">>,
      <<"1", ".", "0", "0", "0", ".", "0", "0", "0">> }

BrlInit ==
    /\ ScrIdle /\ SynIdle /\ ColIdle /\ ExtIdle
    /\ brlPc = "call"
    /\ brlIn \in SeqsUpTo(BrlChars, MaxStr) \cup BrlSamples
    /\ brlOut = NaN

\* const v = parseBRL(s)
BrlCall ==
    /\ brlPc = "call"
    /\ brlOut' = parseBRL(brlIn)
    /\ brlPc' = "returned"
    /\ UNCHANGED brlIn
    /\ UNCHANGED <<scrVars, synVars, colVars, extVars>>

BrlNext == BrlCall

SpecBRL == BrlInit /\ [][BrlNext]_vars

-----------------------------------------------------------------------------
(* PROPERTIES OF runScrape                                                 *)

UrlsOf(q) == [i \in DOMAIN q |-> q[i][3]]

AfterLoop ==
    \/ pc \in {"writeIndex", "details", "close", "done"}
    \/ failedAt \in {"writeIndex", "xlsx", "detalhes"}

\* C1: an exception thrown while one city is processed (the timeout of
\* selectEstadoAndWaitCidades included) never rejects runScrape; the city
\* is entered in urlsPorCidade with an empty urls list, the loop goes on
\* with the next city, and the loop ends only when every city of the list
\* has been processed.
C1_CityErrorContained ==
    /\ failedAt # "cidade"
    /\ Len(cityLog) <= Len(cidades)
    /\ \A i \in DOMAIN cityLog :
          /\ cityLog[i].value = cidades[i].value
          /\ cityLog[i].outcome = "error" =>
                /\ HasKey(urlsPorCidade, cidades[i].value)
                /\ Get(urlsPorCidade, cidades[i].value).urls = <<>>
                /\ Get(urlsPorCidade, cidades[i].value).cidade
                       = cidades[i].text
    /\ pc = "cityLoop" => ci = Len(cityLog) + 1 /\ ci <= Len(cidades)
    /\ AfterLoop => Len(cityLog) = Len(cidades)

\* the region selection of the first city timed out, and the second city
\* was still processed and its urls collected
C1_Witness ==
    /\ pc = "done"
    /\ Len(cityLog) = 2
    /\ cityLog[1].outcome = "error" /\ cityLog[1].at = "selEstado"
    /\ cityLog[2].outcome = "collected"
    /\ Get(urlsPorCidade, cidades[1].value).urls = <<>>
    /\ Get(urlsPorCidade, cidades[2].value).urls # <<>>

\* C2: whichever way the extraction of a detail page fails,
\* extrairDetalhesImovel returns null and does not throw; the caller adds
\* no record for that url and goes on, so that every url of the index is
\* fetched and runScrape never fails in the detail phase.
C2_FailedListingSkipped ==
    /\ \A o \in DetailOutcomes \ {"ok"} :
          extrairDetalhesImovel(o, DetailSample,
              [estado |-> Absent, cidadeCodigo |-> <<>>,
               cidadeNome |-> <<>>]) = NULL
    /\ failedAt # "detalhes"
    /\ Len(detalhes) + Len(nulls) = Len(fetched)
    /\ pc = "details" =>
          fetched \o UrlsOf(queue) = UrlsOf(Entries(urlsPorCidade))
    /\ (pc \in {"close", "done"} \/ failedAt = "xlsx") =>
          fetched = UrlsOf(Entries(urlsPorCidade))

\* the first url gave null, the urls after it were fetched and one of them
\* gave a record
C2_Witness ==
    /\ pc = "done"
    /\ Len(fetched) >= 2
    /\ nulls = <<fetched[1]>>
    /\ Len(detalhes) = Len(fetched) - 1

\* no option of the dropdown has a value other than "" and "0"
NoEligible(opts) ==
    \A i \in DOMAIN opts : opts[i].value = <<>> \/ opts[i].value = <<"0">>

\* C3: when the dropdown holds no eligible option at the end of the wait of
\* line 730, runScrape rejects at that wait (exit code 1 from the entry
\* point), no city is processed and neither file is written; a run that
\* resolves has read at least one city.
C3_NoEligibleOptionFails ==
    /\ ( /\ pc \notin {"launch", "gotoBusca", "selEstado"}
         /\ failedAt \notin {"launch", "goto"}
         /\ NoEligible(initCmb) )
       => /\ pc = "failed" /\ result = "rejected"
          /\ failedAt = "selectEstado"
          /\ isMain => exitCode = 1
          /\ exitCode # 0
          /\ cidades = <<>> /\ cityLog = <<>>
          /\ jsonWrites = 0 /\ jsonFile = NoFile
          /\ xlsxWrites = 0 /\ xlsxFile = NoFile
    /\ result = "resolved" => Len(cidades) >= 1

\* the dropdown held options, none eligible, and the run failed
C3_Witness ==
    /\ initCmb # <<>> /\ NoEligible(initCmb)
    /\ failedAt = "selectEstado"
    /\ isMain /\ exitCode = 1

\* C4: in every run that has ended, by return or by exception, the browser
\* that was launched has been closed exactly once.
C4_BrowserClosedOnce ==
    (pc \in {"done", "failed"} /\ browser # "none") => closes = 1

IndexWritten ==
    \/ pc \in {"details", "close", "done"}
    \/ failedAt \in {"xlsx", "detalhes"}

\* C5: the city-index file is written once, when every city has been
\* processed and before any detail page is fetched, and nothing that
\* happens afterwards changes it.
C5_IndexWrittenOnce ==
    /\ [](/\ jsonWrites <= 1
          /\ jsonWrites = 1 <=> IndexWritten
          /\ jsonWrites = 0 => jsonFile = NoFile /\ fetched = <<>>
          /\ jsonWrites = 1 =>
                /\ Len(cityLog) = Len(cidades)
                /\ jsonFile = File(Stringify(urlsPorCidade)))
    /\ [][jsonWrites = 1 => jsonFile' = jsonFile /\ jsonWrites' = 1]_vars

\* the spreadsheet write failed after details were fetched, and the index
\* written before them is in place
C5_Witness ==
    /\ failedAt = "xlsx"
    /\ fetched # <<>>
    /\ jsonWrites = 1 /\ jsonFile.exists /\ jsonFile.content # <<>>


-----------------------------------------------------------------------------
(* CLAIMS ABOUT THE SYNC FORWARDER                                         *)

MatchingFiles == {i \in DOMAIN dir : IsIndexFile(dir[i].name)}
EnvMissing == Falsy(WP_URL) \/ Falsy(WP_TOKEN)
Exited == spc = "exited"
Responded == res # 0

\* C6 as the specification words it: the forwarder exits non-zero without
\* any request when WP_URL or WP_TOKEN is absent or no file matches;
\* otherwise it sends exactly one POST, exiting non-zero on a non-2xx
\* response and normally on a 2xx response. (Violated: a matching file that is
\* not JSON ends the run with no request sent.)
C6_AsWorded ==
    Exited =>
        IF EnvMissing \/ MatchingFiles = {}
        THEN syncExit # 0 /\ posts = <<>>
        ELSE /\ Len(posts) = 1
             /\ posts[1].method = "POST"
             /\ (Responded /\ ~(res \in 200..299) => syncExit # 0)
             /\ (Responded /\ res \in 200..299 => syncExit = 0)

\* C6, amended: the forwarder exits non-zero without any request when WP_URL
\* or WP_TOKEN is absent or empty, when no file matches, or when the matched
\* file does not parse as JSON; otherwise it sends exactly one POST, to the
\* import endpoint with the bearer token, and exits non-zero when the
\* response is not 2xx or none arrives, normally when the response is 2xx.
C6_ForwarderOutcomes ==
    Exited =>
        IF \/ EnvMissing
           \/ MatchingFiles = {}
           \/ ~("members" \in DOMAIN ReadFile(dir, syncFile))
        THEN syncExit # 0 /\ posts = <<>>
        ELSE /\ Len(posts) = 1
             /\ posts[1].method = "POST"
             /\ posts[1].url = WP_URL \o <<"/wp-json/imoveis/v1/import">>
             /\ posts[1].authorization = <<"Bearer ">> \o WP_TOKEN
             /\ (~Responded => syncExit # 0)
             /\ (Responded /\ ~(res \in 200..299) => syncExit # 0)
             /\ (Responded /\ res \in 200..299 => syncExit = 0)

\* a run that sends its one POST, gets a 2xx response and ends normally, from
\* a directory with MaxFiles entries
C6_Witness ==
    /\ Exited /\ Len(posts) = 1 /\ res = 299 /\ syncExit = 0
    /\ Len(dir) = MaxFiles

\* C7: when several files match, the file read and submitted is the most
\* recently produced of them.
C7_SubmitsMostRecent ==
    (Len(posts) = 1 /\ Cardinality(MatchingFiles) > 1) =>
        \E i \in MatchingFiles :
            /\ dir[i].name = syncFile
            /\ \A j \in MatchingFiles : dir[j].mtime <= dir[i].mtime
            /\ posts[1].body = <<<<"urlsPorCidade", dir[i].text.members>>>>


-----------------------------------------------------------------------------
(* CLAIMS ABOUT THE LISTING COLLECTOR                                      *)

\* the click handler holds detalhe_imovel( digits ) somewhere
HasPattern(item) ==
    \E i, j \in DOMAIN item :
        /\ item[i] = FN /\ item[j] = RP /\ i + 1 < j
        /\ \A k \in (i + 1)..(j - 1) : IsDigit(item[k])

ItemsRead == UNION {Range(reads[i]) : i \in DOMAIN reads}
RawMatches ==
    UNION {{<<i, j>> : j \in {k \in DOMAIN reads[i] : HasPattern(reads[i][k])}} :
              i \in DOMAIN reads}
IdsRead == {MatchId(it) : it \in {x \in ItemsRead : HasPattern(x)}}

\* C8: the list coletarUrlsCidade returns has no duplicate, its length is
\* the number of distinct identifiers among the items of all pages read,
\* and its urls are those of these identifiers alone; items without the
\* pattern detalhe_imovel(<digits>) contribute nothing.
C8_DistinctIdentifiers ==
    kpc = "done" =>
        /\ \A i, j \in DOMAIN kResult : i # j => kResult[i] # kResult[j]
        /\ Len(kResult) = Cardinality(IdsRead)
        /\ Range(kResult) = {URL_PREFIX \o id : id \in IdsRead}

\* two pages read, an identifier met more than once, an item without the
\* pattern among those read
C8_Witness ==
    /\ kpc = "done" /\ Len(reads) = 2
    /\ Cardinality(RawMatches) > Len(kResult)
    /\ Len(kResult) >= 2
    /\ \E x \in ItemsRead : ~HasPattern(x)

-----------------------------------------------------------------------------
(* CLAIMS ABOUT THE DETAIL RECORD AND THE SHEET                            *)

Extracted == xpc \in {"extracted", "saved"} /\ xDet # NULL

\* C9: the record extrairDetalhesImovel returns has exactly the fields of
\* campos, whatever optional elements the page lacks, and every row
\* salvarComoXlsx writes lists exactly campos, in order, each with a value,
\* the empty string where the record's value is empty.
C9_SchemaComplete ==
    /\ Cardinality(Range(campos)) = Len(campos)
    /\ Extracted => DOMAIN xDet = Range(campos)
    /\ xpc = "saved" =>
          /\ xSheet.content.header = campos
          /\ Len(xSheet.content.rows) = (IF xDet = NULL THEN 0 ELSE 1)
          /\ \A r \in DOMAIN xSheet.content.rows :
                LET row == xSheet.content.rows[r]
                IN  /\ Len(row) = Len(campos)
                    /\ \A i \in DOMAIN campos :
                          /\ row[i][1] = campos[i]
                          /\ xDet[campos[i]] = <<>> => row[i][2] = <<>>

\* a row written for a page with no optional element at all
C9_Witness ==
    /\ xpc = "saved" /\ xDet # NULL /\ xPage.sec = {}
    /\ ~xPage.pValores.found
    /\ Len(xSheet.content.rows) = 1

\* the amounts of the minimum variants the record holds
Recorded ==
    {f \in {xDet["_imoveis_valor_minimo_1_leilao"],
            xDet["_imoveis_valor_minimo_2_leilao"],
            xDet["_imoveis_valor_minimo_generico"]} : f # <<>>}
Amounts == {parseBRL(f).val : f \in {g \in Recorded : ~parseBRL(g).nan}}
Smallest(S) == CHOOSE v \in S : \A w \in S : v <= w

\* C10: the generic minimum is recorded only when neither numbered minimum
\* matched, and then it is; the numbered ones are recorded whenever they
\* match; the overall minimum is the smallest amount among the recorded
\* variants, to the cent, and empty when no variant is recorded (or none
\* reads as an amount).
C10_MinimumSelection ==
    Extracted =>
        LET pv == Valores(xPage)
            gen == xDet["_imoveis_valor_minimo_generico"]
            geral == xDet["_imoveis_valor_minimo"]
        IN  /\ gen # <<>> => pv.matchMin1 = NoMatch /\ pv.matchMin2 = NoMatch
            /\ (pv.matchMin1 = NoMatch /\ pv.matchMin2 = NoMatch
                  /\ pv.matchMinGeneric # NoMatch)
               => gen = pv.matchMinGeneric
            /\ pv.matchMin1 # NoMatch
               => xDet["_imoveis_valor_minimo_1_leilao"] = pv.matchMin1
            /\ pv.matchMin2 # NoMatch
               => xDet["_imoveis_valor_minimo_2_leilao"] = pv.matchMin2
            /\ Recorded = {} => geral = <<>>
            /\ geral = IF Amounts = {} THEN <<>>
                       ELSE ToFixed2Comma(Smallest(Amounts))

\* both numbered minimums and a smaller generic one on the page: the generic
\* field is empty and the overall minimum is the second-auction one
C10_Witness ==
    /\ Extracted
    /\ xPage.pValores.found
    /\ xPage.pValores.matchMin1
         = <<"1", "0", "0", ".", "0", "0", "0", ",", "0", "0">>
    /\ xPage.pValores.matchMin2
         = <<"8", "0", ".", "0", "0", "0", ",", "0", "0">>
    /\ xPage.pValores.matchMinGeneric = <<"8", ",", "5">>
    /\ xDet["_imoveis_valor_minimo_generico"] = <<>>
    /\ xDet["_imoveis_valor_minimo"]
         = <<"8", "0", "0", "0", "0", ",", "0", "0">>


\* the appraisal the record holds, as a number
Appraisal == parseBRL(xDet["_imoveis_valor_avaliacao"])

\* the hundredths of a percent a discount text shows, its "%" dropped
Hundredths(desc) ==
    parseBRL(SubSeq(desc, 1, Len(desc) - 1)).val \div (Unit \div 100)

\* h hundredths of a percent is d / a * 100 to the nearest hundredth:
\* 2 * |h * a - d * 10000| <= a, with a split so that no product passes
\* 32 bits
Nearest(h, d, a) ==
    LET k == h * (a \div 10000) - d
        e == 10000 * k + h * (a % 10000)
    IN  /\ k \in (0 - 20000)..20000
        /\ 2 * (IF e < 0 THEN 0 - e ELSE e) <= a

\* C11: the discount is the empty string unless the appraisal and an
\* overall minimum are both available and the appraisal is above zero; when
\* computed it is (appraisal - minimum) / appraisal * 100 to two decimals
\* followed by "%", never negative, 0,00% when the minimum is above the
\* appraisal, and 20,00% for 100000.00 and 80000.00.
C11_Discount ==
    Extracted =>
        LET a == Appraisal
            desc == xDet["_imoveis_desconto_percentual"]
            computed == ~a.nan /\ Amounts # {} /\ a.val > 0
        IN  /\ xDet["_imoveis_desconto_pct"] = desc
            /\ ~computed => desc = <<>>
            /\ computed =>
                  LET m == Smallest(Amounts)
                      d == IF m > a.val THEN 0 ELSE a.val - m
                  IN  /\ desc # <<>>
                      /\ desc[Len(desc)] = "%"
                      /\ desc[1] # "-"
                      /\ Hundredths(desc) \in 0..10000
                      /\ Nearest(Hundredths(desc), d, a.val)
                      /\ m > a.val => desc = <<"0", ",", "0", "0", "%">>
                      /\ (a.val = 100000 * Unit /\ m = 80000 * Unit)
                         => desc = <<"2", "0", ",", "0", "0", "%">>

\* appraisal 100.000,00 and overall minimum 80.000,00: 20,00%
C11_Witness ==
    /\ Extracted
    /\ xDet["_imoveis_valor_avaliacao"]
         = <<"1", "0", "0", ".", "0", "0", "0", ",", "0", "0">>
    /\ xDet["_imoveis_valor_minimo"]
         = <<"8", "0", "0", "0", "0", ",", "0", "0">>
    /\ xDet["_imoveis_desconto_percentual"]
         = <<"2", "0", ",", "0", "0", "%">>


-----------------------------------------------------------------------------
(* CLAIMS ABOUT parseBRL                                                   *)

AllDigits(t) == t # <<>> /\ \A i \in DOMAIN t : IsDigit(t[i])

\* digits in groups of three set apart by periods: 1.234, 12.345.678
Grouped(t) ==
    /\ t # <<>> /\ IsDigit(t[1])
    /\ \A i \in DOMAIN t :
          IF (Len(t) - i + 1) % 4 = 0 THEN t[i] = "." ELSE IsDigit(t[i])

\* s without the currency sign it may start with
Unsigned_BRL(s) ==
    IF Len(s) >= 3 /\ SubSeq(s, 1, 3) = <<"R", "$", " ">>
    THEN SubSeq(s, 4, Len(s)) ELSE s

Commas(t) == {i \in DOMAIN t : t[i] = ","}
IntPart(t) ==
    IF Commas(t) = {} THEN t ELSE SubSeq(t, 1, (CHOOSE i \in Commas(t) : TRUE) - 1)
FracPart(t) ==
    IF Commas(t) = {} THEN <<>>
    ELSE SubSeq(t, (CHOOSE i \in Commas(t) : TRUE) + 1, Len(t))

\* a Brazilian-locale currency string: period for thousands, at most one
\* comma, decimals after it
WellFormedBRL(s) ==
    LET t == Unsigned_BRL(s)
    IN  /\ Cardinality(Commas(t)) <= 1
        /\ AllDigits(IntPart(t)) \/ Grouped(IntPart(t))
        /\ Commas(t) # {} => AllDigits(FracPart(t))

\* its value, in units
ValueBRL(s) ==
    LET t == Unsigned_BRL(s)
    IN  NatOf(Keep(IntPart(t), Digits)) * Unit + FracUnits(FracPart(t))

\* C12: parseBRL gives a Brazilian-locale currency string its numeric value
\* (1.234,56 gives 1234.56) and gives every other string, such as one with
\* more than one comma or with no digit, null.
C12_ParseBRL ==
    brlPc = "returned" =>
        IF WellFormedBRL(brlIn) THEN brlOut = Num(ValueBRL(brlIn))
        ELSE brlOut = NaN

\* the part of C12 that the code keeps: well-formed strings get their value
\* and strings with no digit get null
C12_WellFormedOrNoDigit ==
    brlPc = "returned" =>
        /\ WellFormedBRL(brlIn) => brlOut = Num(ValueBRL(brlIn))
        /\ (\A i \in DOMAIN brlIn : ~IsDigit(brlIn[i])) => brlOut = NaN
        /\ brlIn = <<"1", ".", "2", "3", "4", ",", "5", "6">>
           => brlOut = Num(1234 * Unit + 56 * (Unit \div 100))

\* the string 1,2,3 of two commas is read as 1.2
C12_TwoCommasParsed ==
    /\ brlPc = "returned"
    /\ brlIn = <<"1", ",", "2", ",", "3">>
    /\ brlOut = Num(Unit + 2 * (Unit \div 10))


-----------------------------------------------------------------------------
(* MORE CLAIMS ABOUT THE LISTING COLLECTOR                                 *)

\* no wait of lines 587-593 ran into its timeout
LoadsInBound == \A i \in DOMAIN kLoads : kLoads[i] # "empty"

\* the urls of the listings the host serves on pages 1..totalPages
UrlsServed ==
    UNION {Range(ExtractUrls(PageOf(kDom.pages, q))) : q \in 1..totalPages}

\* C13: every page after the first is read only once the pagination call
\* for it has repopulated the container, so that, no load running into its
\* bound, the list returned holds every listing of pages 1..totalPages.
C13_ReadsAfterRepopulation ==
    /\ \A q \in DOMAIN reads :
          (q > 1 /\ kLoads[q - 1] # "empty")
             => reads[q] = PageOf(kDom.pages, q)
    /\ (kpc = "done" /\ LoadsInBound) => UrlsServed \subseteq Range(kResult)


-----------------------------------------------------------------------------
(* MORE PROPERTIES OF runScrape                                            *)

WizardWaits == {"btn_next0", "lista"}
LastLog == cityLog[Len(cityLog)]

\* a step in which a wizard wait times out
TimesOut == warned' # warned /\ warned' # {}

\* the step that re-checks the presence of listings, lines 796-802
Rechecks == pc = "cityLoop" /\ cpc = "temImoveis" /\ <<cpc, cityLog>>' # <<cpc, cityLog>>

\* C14: a timeout of either wizard wait rejects nothing and fails no city:
\* the iteration goes on (to the second button after the first wait, to the
\* re-check of the listing after the second) with nothing recorded for the
\* city; after the re-check the collector is called exactly when an item is
\* there, and otherwise the city is recorded with an empty urls list.
C14_WizardTimeoutsSwallowed ==
    /\ [](\A i \in DOMAIN cityLog : cityLog[i].at \notin WizardWaits)
    /\ [](pc = "cityLoop" /\ cpc = "coletar" => TemImoveis(lista))
    /\ [][TimesOut =>
            /\ pc' = "cityLoop" /\ result' = "pending"
            /\ UNCHANGED <<cityLog, urlsPorCidade, ci>>
            /\ cpc' = IF "lista" \in warned' \ warned THEN "temImoveis"
                      ELSE "next1"]_vars
    /\ [][Rechecks =>
            \/ /\ TemImoveis(lista)
               /\ cpc' = "coletar" /\ UNCHANGED <<cityLog, urlsPorCidade>>
            \/ /\ ~TemImoveis(lista)
               /\ Len(cityLog') = Len(cityLog) + 1
               /\ cityLog'[Len(cityLog')].outcome = "none"
               /\ Get(urlsPorCidade', cidade.value).urls = <<>>
            \/ /\ Len(cityLog') = Len(cityLog) + 1          \* it threw
               /\ cityLog'[Len(cityLog')].outcome = "error"
               /\ cityLog'[Len(cityLog')].at = "temImoveis"]_vars

\* both waits timed out, the re-check found items and the collector is
\* about to be called
C14_Witness ==
    /\ pc = "cityLoop" /\ cpc = "coletar"
    /\ warned = WizardWaits
    /\ TemImoveis(lista)


\* the wait of line 730 is over, released or timed out
InitialWaitOver ==
    /\ pc \notin {"launch", "gotoBusca", "selEstado"}
    /\ failedAt \notin {"launch", "goto"}

\* C15: the wait of selectEstadoAndWaitCidades is released exactly when
\* the dropdown holds an option whose value is neither empty nor "0"; so
\* whenever getCidades would return a city on the dropdown's content, the
\* wait does not time out.
C15_WaitReleasedOnValue ==
    InitialWaitOver =>
        /\ failedAt # "selectEstado" <=> ~NoEligible(initCmb)
        /\ getCidades(initCmb) # <<>> => failedAt # "selectEstado"


\* the city codes the dropdown held at the start of the run
Codes == {initCmb[i].value : i \in {j \in DOMAIN initCmb : ~NoEligible(<<initCmb[j]>>)}}

\* the member of the written index for the code
Member(code) ==
    jsonFile.content[CHOOSE i \in DOMAIN jsonFile.content :
                         jsonFile.content[i][1] = code][2]

\* C16: the index written holds exactly one member for each city code the
\* dropdown held at the start of the run and none for any other key; each
\* carries the trimmed label of its option, and an empty urls list when
\* the city had no listing or failed.
C16_IndexCoversCities ==
    jsonFile.exists =>
        /\ {jsonFile.content[i][1] : i \in DOMAIN jsonFile.content} = Codes
        /\ Len(jsonFile.content) = Cardinality(Codes)
        /\ \A j \in DOMAIN initCmb :
              initCmb[j].value \in Codes
                 => Member(initCmb[j].value).cidade = Trim(initCmb[j].text)
        /\ Len(cityLog) = Cardinality(Codes)
        /\ \A k \in DOMAIN cityLog :
              cityLog[k].outcome \in {"none", "error"}
                 => Member(cityLog[k].value).urls = <<>>

\* an index written for two cities, one with no listing and one whose
\* listings were collected
C16_Witness ==
    /\ jsonFile.exists
    /\ Len(jsonFile.content) = 2
    /\ \E k \in DOMAIN cityLog : cityLog[k].outcome = "none"
    /\ \E k \in DOMAIN cityLog :
          /\ cityLog[k].outcome = "collected"
          /\ Member(cityLog[k].value).urls # <<>>

====
